---- MODULE Spec2Model ----
(***************************************************************************)
(* Chat ID Tracker (open_web_chat_id_pipe.py): the Filter object with its  *)
(* two in-memory stores, and its three handlers inlet (resolve), outlet    *)
(* (finalize) and handle_stop (stop).                                      *)
(*                                                                         *)
(* Values of the Python program are represented as follows.                *)
(*   chat ids      <<kind, n>>: <<"uuid", n>> is the n-th value returned   *)
(*                 by uuid.uuid4(), <<"client", n>> a string made up by a  *)
(*                 client, EmptyStr the string "", None a missing key.     *)
(*   session ids   <<kind, n>>: <<"session-", n>> is the string            *)
(*                 "session-n", <<"S", n>> another client string.          *)
(*   contents      strings; NoContent marks a message without the key.     *)
(*   time.time()   now / TicksPerSecond seconds; int(time.time()) is the   *)
(*                 integer part.                                           *)
(*                                                                         *)
(* Under Spec the host runs one handler call at a time (inlet and outlet   *)
(* are plain functions and handle_stop contains no await, so on one event  *)
(* loop every call runs to completion before the next starts).             *)
(*                                                                         *)
(* A run is any sequence of handler calls and clock ticks.  Any call can   *)
(* be the final one of a run; the final call is recorded in last, together *)
(* with the state it found, and the state it leaves is the state of the    *)
(* model.  The inlet calls of the whole run are recorded in resolved.      *)
(*                                                                         *)
(* Under HostSpec the host runs handler calls concurrently: see the        *)
(* section HostSpec.                                                       *)
(***************************************************************************)
EXTENDS Integers, Sequences, FiniteSets, TLC

\* ---------------------------------------------------------------- bounds
MaxCalls == 3
MaxTime == 2

TicksPerSecond == 2

\* ---------------------------------------------------------------- values
None == <<"None", 0>>
EmptyStr == <<"", 0>>
NoContent == "<missing>"
NoTime == -1
NoFlag == "<missing>"

Msg(role, content) == [role |-> role, content |-> content]
\* the message lists of the requests that are sent
Messages ==
    { <<>>,
      <<Msg("user", "hi")>>,
      <<Msg("user", NoContent)>>,
      <<Msg("assistant", "yo"), Msg("user", "hi")>>,
      <<Msg("user", "yo"), Msg("user", "hi")>> }

Seconds == 0..(MaxTime \div TicksPerSecond)
Uuid(n) == <<"uuid", n>>
ClientChatIds == {<<"client", 1>>}
SessionName(sec) == <<"session-", sec>>
ClientSessionIds == {<<"S", 1>>}
SessionIds == ClientSessionIds \cup {SessionName(sec) : sec \in Seconds}

\* bool(x) of Python for the optional string fields of a body
Truthy(x) == x # None /\ x # EmptyStr

\* faulty variant: a digest on which "hi" and "yo" collide
sha256_colliding(s) ==
    CASE s = ""   -> "e3b0c442"
      [] s = "hi" -> "8f434346"
      [] s = "yo" -> "8f434346"

\* hashlib.sha256(s.encode()).hexdigest(), first eight hex digits
sha256(s) ==
    CASE s = ""   -> "e3b0c442"
      [] s = "hi" -> "8f434346"
      [] s = "yo" -> "e9058ab1"

\* message.get("content", "")
get_content(message) ==
    IF message.content = NoContent THEN "" ELSE message.content

RECURSIVE first_user(_, _)
first_user(messages, i) ==
    IF i > Len(messages) THEN 0
    ELSE IF messages[i].role = "user" THEN i
    ELSE first_user(messages, i + 1)

\* faulty variant: hashes the first message whatever its role
hash_first_message(messages) ==
    IF Len(messages) = 0 THEN sha256("") ELSE sha256(get_content(messages[1]))

\* Filter._hash_user_messages
hash_user_messages(messages) ==
    LET i == first_user(messages, 1)
    IN  IF i = 0 THEN sha256("") ELSE sha256(get_content(messages[i]))

\* ---------------------------------------------------------------- state
VARIABLES
    conversation_store,   \* self._conversation_store : digest -> chat id
    active_streams,       \* self._active_streams : session id -> stream info
    uuids,                \* number of values uuid.uuid4() has returned
    now,                  \* the clock, in ticks
    calls,                \* number of handler calls made
    last,                 \* the final handler call of the run: its input, its
                          \* result, the clock and the two stores it found
    resolved,             \* history: what every inlet call was given and chose,
                          \* and the clock second of a call without session id
    tasks                 \* the handler calls of a host that runs calls
                          \* concurrently (HostSpec), each with its position
                          \* and its local variables

vars == <<conversation_store, active_streams, uuids, now, calls, last, resolved,
          tasks>>

Keys(d) == DOMAIN d
Values(d) == {d[k] : k \in DOMAIN d}
Put(d, k, v) == [x \in (DOMAIN d) \cup {k} |-> IF x = k THEN v ELSE d[x]]
EmptyDict == [x \in {} |-> None]

NoBody == [messages |-> <<>>, chat_id |-> None, session_id |-> None, model |-> ""]
NoResponse == [session_id |-> None, done |-> NoFlag, stop_reason |-> None]
NoResult == [status |-> "", message |-> "", detail |-> ""]
NoCall ==
    [op |-> "none", body |-> NoBody, out |-> NoBody,
     response |-> NoResponse, returned |-> NoResponse,
     session_id |-> None, backend |-> "none",
     posts |-> 0, result |-> NoResult, time |-> 0,
     store0 |-> EmptyDict, streams0 |-> EmptyDict]

\* a stream info dict that is not there
NoInfo ==
    [chat_id |-> None, start_time |-> NoTime, active |-> FALSE,
     end_time |-> NoTime, stopped_by_user |-> NoFlag, stop_time |-> NoTime]

\* the slot of a call that has not started or has returned
NoTask ==
    [op |-> "none", on |-> "none", pc |-> "none", body |-> NoBody,
     response |-> NoResponse, session_id |-> None, conv_hash |-> "",
     chat_id |-> None, fresh |-> FALSE, attached |-> FALSE,
     stream_info |-> NoInfo, backend |-> "none"]

\* the calls of a run, in the order in which they start
Ids == 1..MaxCalls

\* no final call has been made
Running == last.op = "none"

\* the record of a call, kept if the call is the final one
Final(final, call) == IF final THEN call ELSE NoCall

Init ==
    /\ conversation_store = EmptyDict
    /\ active_streams = EmptyDict
    /\ uuids = 0
    /\ now = 0
    /\ calls = 0
    /\ last = NoCall
    /\ resolved = {}
    /\ tasks = [t \in Ids |-> NoTask]

\* ---------------------------------------------------------------- inlet
\* faulty variant: any supplied chat_id is trusted
chat_id_any(provided_chat_id) == Truthy(provided_chat_id)

\* line 44: the supplied chat_id is trusted
chat_id_valid(provided_chat_id) ==
    Truthy(provided_chat_id) /\ provided_chat_id \in Values(conversation_store)

\* faulty variant: line 47 dropped, the record is not consulted for the fingerprint
inlet_chat_id_always_new(body) ==
    IF chat_id_valid(body.chat_id) THEN body.chat_id ELSE Uuid(uuids + 1)

\* faulty variant: the fingerprint's identifier wins over a trusted chat_id
inlet_chat_id_content_first(body) ==
    LET conv_hash == hash_user_messages(body.messages)
    IN  IF conv_hash \in Keys(conversation_store)
        THEN conversation_store[conv_hash]
        ELSE IF chat_id_valid(body.chat_id) THEN body.chat_id
        ELSE Uuid(uuids + 1)

\* lines 43-52: the chat_id written into the body
inlet_chat_id(body) ==
    LET conv_hash == hash_user_messages(body.messages)
    IN  IF chat_id_valid(body.chat_id) THEN body.chat_id
        ELSE IF conv_hash \in Keys(conversation_store)
             THEN conversation_store[conv_hash]
             ELSE Uuid(uuids + 1)

\* faulty variant: line 52 dropped, a new identifier is not stored
inlet_store_forget(body) == conversation_store

\* faulty variant: line 47 dropped, a known fingerprint is given a new identifier
inlet_store_overwrite(body) ==
    LET conv_hash == hash_user_messages(body.messages)
    IN  IF chat_id_valid(body.chat_id)
        THEN conversation_store
        ELSE Put(conversation_store, conv_hash, Uuid(uuids + 1))

\* faulty variant: a trusted chat_id is stored under a fingerprint that is new
inlet_store_bind(body) ==
    LET conv_hash == hash_user_messages(body.messages)
    IN  IF conv_hash \in Keys(conversation_store) THEN conversation_store
        ELSE IF chat_id_valid(body.chat_id)
        THEN Put(conversation_store, conv_hash, body.chat_id)
        ELSE Put(conversation_store, conv_hash, Uuid(uuids + 1))

\* lines 47-52: the conversation store after the call
inlet_store(body) ==
    LET conv_hash == hash_user_messages(body.messages)
    IN  IF chat_id_valid(body.chat_id) \/ conv_hash \in Keys(conversation_store)
        THEN conversation_store
        ELSE Put(conversation_store, conv_hash, Uuid(uuids + 1))

\* faulty variant: line 56 dropped, a session id is generated for every request
inlet_session_id_regenerate(body) == SessionName(now \div TicksPerSecond)

\* faulty variant: the generated session id is made from the unrounded clock
inlet_session_id_ticks(body) ==
    IF Truthy(body.session_id) THEN body.session_id ELSE SessionName(now)

\* lines 55-58: the session id written into the body
inlet_session_id(body) ==
    IF Truthy(body.session_id) THEN body.session_id
    ELSE SessionName(now \div TicksPerSecond)

\* lines 61-65: the stream info registered for the session
new_stream_info(chat_id) ==
    [chat_id |-> chat_id, start_time |-> now, active |-> TRUE,
     end_time |-> NoTime, stopped_by_user |-> NoFlag, stop_time |-> NoTime]

\* faulty variant: the entry of a known session id is updated in place
inlet_streams_update(session_id, chat_id) ==
    IF session_id \in Keys(active_streams)
    THEN [active_streams EXCEPT ![session_id].chat_id = chat_id,
                                ![session_id].start_time = now,
                                ![session_id].active = TRUE]
    ELSE Put(active_streams, session_id, new_stream_info(chat_id))

\* lines 61-65: the registry after the call
inlet_streams(session_id, chat_id) ==
    Put(active_streams, session_id, new_stream_info(chat_id))

Bodies ==
    [messages : Messages,
     chat_id : {None, EmptyStr} \cup ClientChatIds \cup Values(conversation_store),
     session_id : {None, EmptyStr} \cup ClientSessionIds,
     model : {"llama3"}]

\* the content of the first user-role message of a request, "" if none
first_user_content(messages) ==
    IF \E i \in 1..Len(messages) : messages[i].role = "user"
    THEN LET i == CHOOSE i \in 1..Len(messages) :
                      /\ messages[i].role = "user"
                      /\ \A j \in 1..(i - 1) : messages[j].role # "user"
         IN  get_content(messages[i])
    ELSE ""

\* how the chat_id a request supplies relates to the conversation record
supplied_kind(body) ==
    IF body.chat_id = None THEN "none"
    ELSE IF \A k \in Keys(conversation_store) :
                conversation_store[k] # body.chat_id THEN "unknown"
    ELSE IF \E k \in Keys(conversation_store) :
                /\ sha256(first_user_content(body.messages)) = k
                /\ conversation_store[k] = body.chat_id THEN "own"
    ELSE "other"

\* Filter.inlet
Inlet ==
    \E body \in Bodies, final \in BOOLEAN :
        LET chat_id == inlet_chat_id(body)
            session_id == inlet_session_id(body)
            out == [body EXCEPT !.chat_id = chat_id, !.session_id = session_id]
        IN  /\ Running /\ calls < MaxCalls
            /\ calls' = calls + 1
            /\ resolved' = resolved \cup
                   {[content |-> first_user_content(body.messages),
                     supplied |-> supplied_kind(body),
                     second |-> IF Truthy(body.session_id) THEN NoTime
                                ELSE now \div TicksPerSecond,
                     session_id |-> session_id, chat_id |-> chat_id]}
            /\ conversation_store' = inlet_store(body)
            /\ uuids' = IF inlet_store(body) = conversation_store
                        THEN uuids ELSE uuids + 1
            /\ active_streams' = inlet_streams(session_id, chat_id)
            /\ last' = Final(final,
                   [NoCall EXCEPT !.op = "inlet", !.body = body, !.out = out,
                                  !.time = now,
                                  !.store0 = conversation_store,
                                  !.streams0 = active_streams])
            /\ UNCHANGED <<now, tasks>>

\* ---------------------------------------------------------------- outlet
Responses ==
    [session_id : {None} \cup SessionIds,
     done : {NoFlag, "True", "False"},
     stop_reason : {None, EmptyStr, <<"stop", 0>>}]

\* line 74: body.get("done", False) or body.get("stop_reason")
end_of_stream(body) == body.done = "True" \/ Truthy(body.stop_reason)

\* faulty variant: line 74 dropped, any response of a known session ends it
outlet_streams_any_body(body) ==
    IF /\ Truthy(body.session_id)
       /\ body.session_id \in Keys(active_streams)
    THEN [active_streams EXCEPT ![body.session_id].active = FALSE,
                                ![body.session_id].end_time = now]
    ELSE active_streams

\* lines 71-76: the registry after the call
outlet_streams(body) ==
    IF /\ Truthy(body.session_id)
       /\ body.session_id \in Keys(active_streams)
       /\ end_of_stream(body)
    THEN [active_streams EXCEPT ![body.session_id].active = FALSE,
                                ![body.session_id].end_time = now]
    ELSE active_streams

\* Filter.outlet
Outlet ==
    \E body \in Responses, final \in BOOLEAN :
        /\ Running /\ calls < MaxCalls
        /\ calls' = calls + 1
        /\ active_streams' = outlet_streams(body)
        /\ last' = Final(final,
               [NoCall EXCEPT !.op = "outlet", !.response = body,
                              !.returned = body, !.time = now, !.store0 = conversation_store,
                              !.streams0 = active_streams])
        /\ UNCHANGED <<conversation_store, uuids, now, resolved, tasks>>

\* ---------------------------------------------------------------- handle_stop
\* what requests.post does: a response with a status code, or a
\* requests.exceptions.RequestException
StatusCodes == {"200", "204", "500"}
RequestExceptions == {"ConnectionError", "Timeout"}
Backend == StatusCodes \cup RequestExceptions

\* faulty variant: every status code counts as success
stop_result_any_status(session_id, backend) ==
    IF session_id \notin Keys(active_streams)
    THEN [status |-> "error", message |-> "Session not found", detail |-> ""]
    ELSE IF backend \in RequestExceptions
    THEN [status |-> "error", message |-> "Failed to reach backend: ",
          detail |-> backend]
    ELSE [status |-> "success", message |-> "Stream stopped", detail |-> ""]

\* faulty variant: line 110 catches connection errors only, a timeout escapes
stop_result_uncaught_timeout(session_id, backend) ==
    IF session_id \notin Keys(active_streams)
    THEN [status |-> "error", message |-> "Session not found", detail |-> ""]
    ELSE IF backend = "Timeout"
    THEN [status |-> "raised", message |-> "", detail |-> backend]
    ELSE IF backend \in RequestExceptions
    THEN [status |-> "error", message |-> "Failed to reach backend: ",
          detail |-> backend]
    ELSE IF backend = "200"
    THEN [status |-> "success", message |-> "Stream stopped", detail |-> ""]
    ELSE [status |-> "error", message |-> "Backend returned ", detail |-> backend]

\* lines 84-111: the value handle_stop returns
stop_result(session_id, backend) ==
    IF session_id \notin Keys(active_streams)
    THEN [status |-> "error", message |-> "Session not found", detail |-> ""]
    ELSE IF backend \in RequestExceptions
    THEN [status |-> "error", message |-> "Failed to reach backend: ",
          detail |-> backend]
    ELSE IF backend = "200"
    THEN [status |-> "success", message |-> "Stream stopped", detail |-> ""]
    ELSE [status |-> "error", message |-> "Backend returned ", detail |-> backend]

\* faulty variant: the session is marked stopped before the backend has answered
stop_streams_eager(session_id, backend) ==
    IF session_id \in Keys(active_streams)
    THEN [active_streams EXCEPT ![session_id].active = FALSE,
                                ![session_id].stopped_by_user = "True",
                                ![session_id].stop_time = now]
    ELSE active_streams

\* faulty variant: a stopped session is removed from the registry
stop_streams_pop(session_id, backend) ==
    IF session_id \in Keys(active_streams) /\ backend = "200"
    THEN [s \in Keys(active_streams) \ {session_id} |-> active_streams[s]]
    ELSE active_streams

\* lines 87, 99-102: the registry after the call
stop_streams(session_id, backend) ==
    IF session_id \in Keys(active_streams) /\ backend = "200"
    THEN [active_streams EXCEPT ![session_id].active = FALSE,
                                ![session_id].stopped_by_user = "True",
                                ![session_id].stop_time = now]
    ELSE active_streams

\* faulty variant: lines 84-85 dropped, the backend is contacted for any session id
stop_posts_always(session_id) == 1

\* lines 84-97: the number of requests sent to the backend
stop_posts(session_id) ==
    IF session_id \in Keys(active_streams) THEN 1 ELSE 0

\* Filter.handle_stop
HandleStop ==
    \E session_id \in SessionIds, backend \in Backend, final \in BOOLEAN :
        /\ Running /\ calls < MaxCalls
        /\ calls' = calls + 1
        /\ active_streams' = stop_streams(session_id, backend)
        /\ last' = Final(final,
               [NoCall EXCEPT !.op = "stop", !.session_id = session_id,
                              !.time = now, !.store0 = conversation_store,
                              !.streams0 = active_streams,
                              !.backend = IF stop_posts(session_id) = 1
                                          THEN backend ELSE "none",
                              !.posts = stop_posts(session_id),
                              !.result = stop_result(session_id, backend)])
        /\ UNCHANGED <<conversation_store, uuids, now, resolved, tasks>>

\* ---------------------------------------------------------------- clock
Tick ==
    /\ Running /\ now < MaxTime
    /\ now' = now + 1
    /\ UNCHANGED <<conversation_store, active_streams, uuids, calls, last,
                   resolved, tasks>>

Next == Inlet \/ Outlet \/ HandleStop \/ Tick

Spec == Init /\ [][Next]_vars

\* ================================================================ HostSpec
(***************************************************************************)
(* A host that runs handler calls concurrently.  The host is not part of   *)
(* the repository; the model allows what the three handlers allow a host   *)
(* to do.  handle_stop is a coroutine function: it runs on the host's      *)
(* event loop and, having no await, keeps the loop from its first line to  *)
(* its return, the wait inside requests.post included.  inlet and outlet   *)
(* are plain functions: the host calls them on the event loop, where a     *)
(* call runs only while no other call has the loop, or on a worker thread. *)
(* Calls interleave at the statements that read or write one of the two    *)
(* dicts; the statements in between are local and belong to the next such  *)
(* statement.  A call that has returned leaves its place in tasks.  The    *)
(* clock does not advance under HostSpec.                                  *)
(*                                                                         *)
(* stream_info of line 87 is a reference to the dict that the registry     *)
(* holds for the session.  While the registry still holds that dict        *)
(* (attached), a write through stream_info is a write to the entry.  When  *)
(* line 61 stores a new dict under the session id, the dict stream_info    *)
(* refers to is no longer in the registry: the task keeps it in its field  *)
(* stream_info and the writes of lines 100-102 go there.                   *)
(***************************************************************************)
Runners == {"loop", "thread"}

\* the requests and responses the concurrent host passes on
HostBodies ==
    [messages : {<<Msg("user", "hi")>>, <<Msg("user", "yo"), Msg("user", "hi")>>},
     chat_id : {None} \cup Values(conversation_store),
     session_id : {None} \cup ClientSessionIds,
     model : {"llama3"}]

HostSessionIds == ClientSessionIds \cup {SessionName(0)}

HostResponses ==
    [session_id : HostSessionIds, done : {NoFlag, "True"}, stop_reason : {None}]

HostBackend == {"200", "500", "Timeout"}

\* no call has the event loop
LoopFree == \A t \in Ids : tasks[t].on # "loop"

\* the host can start a call on this runner
CanStart(on) == calls < MaxCalls /\ (on = "loop" => LoopFree)

At(t, op, pc) == tasks[t].op = op /\ tasks[t].pc = pc

\* lines 39-45: inlet is called; the supplied chat_id is looked up among the
\* values of the conversation store
InletCall(body, on) ==
        /\ CanStart(on)
        /\ calls' = calls + 1
        /\ tasks' = [tasks EXCEPT ![calls + 1] =
               [NoTask EXCEPT !.op = "inlet", !.on = on, !.body = body,
                              !.conv_hash = hash_user_messages(body.messages),
                              !.chat_id = IF chat_id_valid(body.chat_id)
                                          THEN body.chat_id ELSE None,
                              !.pc = IF chat_id_valid(body.chat_id)
                                     THEN "l61" ELSE "l47"]]
        /\ UNCHANGED <<conversation_store, active_streams, uuids, now, last,
                       resolved>>

InletStart == \E body \in HostBodies, on \in Runners : InletCall(body, on)

\* lines 47, 50-51: the fingerprint is looked up among the keys; if it is
\* absent a new identifier is made
Inlet47 ==
    \E t \in Ids :
        /\ At(t, "inlet", "l47")
        /\ IF tasks[t].conv_hash \in Keys(conversation_store)
           THEN /\ tasks' = [tasks EXCEPT ![t].pc = "l48"]
                /\ UNCHANGED uuids
           ELSE /\ tasks' = [tasks EXCEPT ![t].pc = "l52", ![t].fresh = TRUE,
                                          ![t].chat_id = Uuid(uuids + 1)]
                /\ uuids' = uuids + 1
        /\ UNCHANGED <<conversation_store, active_streams, now, calls, last,
                       resolved>>

\* line 48: the identifier of the fingerprint is read
Inlet48 ==
    \E t \in Ids :
        /\ At(t, "inlet", "l48")
        /\ tasks' = [tasks EXCEPT ![t].pc = "l61",
                         ![t].chat_id = conversation_store[tasks[t].conv_hash]]
        /\ UNCHANGED <<conversation_store, active_streams, uuids, now, calls,
                       last, resolved>>

\* faulty variant: dict.setdefault, the identifier already stored is kept and used
stored_chat_id_setdefault(conv_hash, chat_id) ==
    IF conv_hash \in Keys(conversation_store)
    THEN conversation_store[conv_hash] ELSE chat_id

\* lines 51-52: the identifier that is stored under the fingerprint and
\* written into the body
stored_chat_id(conv_hash, chat_id) == chat_id

\* line 52: the new identifier is stored
Inlet52 ==
    \E t \in Ids :
        LET chat_id == stored_chat_id(tasks[t].conv_hash, tasks[t].chat_id)
        IN  /\ At(t, "inlet", "l52")
            /\ conversation_store' =
                   Put(conversation_store, tasks[t].conv_hash, chat_id)
            /\ tasks' = [tasks EXCEPT ![t].pc = "l61", ![t].chat_id = chat_id]
            /\ UNCHANGED <<active_streams, uuids, now, calls, last, resolved>>

\* the tasks after the dict of a session id has been replaced in the registry
detach(ts, session_id) ==
    [u \in Ids |->
        IF ts[u].op = "stop" /\ ts[u].attached /\ ts[u].session_id = session_id
        THEN [ts[u] EXCEPT !.attached = FALSE,
                           !.stream_info = active_streams[session_id]]
        ELSE ts[u]]

\* lines 55-67: the session id is settled, a new dict is stored for it and
\* the body is returned
Inlet61 ==
    \E t \in Ids :
        LET session_id == inlet_session_id(tasks[t].body)
        IN  /\ At(t, "inlet", "l61")
            /\ active_streams' = inlet_streams(session_id, tasks[t].chat_id)
            /\ tasks' = detach([tasks EXCEPT ![t] = NoTask], session_id)
            /\ UNCHANGED <<conversation_store, uuids, now, calls, last, resolved>>

\* lines 71-74: outlet is called; the session id is looked up in the registry
OutletCall(body, on) ==
        /\ CanStart(on)
        /\ calls' = calls + 1
        /\ tasks' = IF /\ Truthy(body.session_id)
                       /\ body.session_id \in Keys(active_streams)
                       /\ end_of_stream(body)
                    THEN [tasks EXCEPT ![calls + 1] =
                             [NoTask EXCEPT !.op = "outlet", !.on = on,
                                            !.response = body,
                                            !.session_id = body.session_id,
                                            !.pc = "l75"]]
                    ELSE tasks
        /\ UNCHANGED <<conversation_store, active_streams, uuids, now, last,
                       resolved>>

OutletStart == \E body \in HostResponses, on \in Runners : OutletCall(body, on)

\* line 75
Outlet75 ==
    \E t \in Ids :
        /\ At(t, "outlet", "l75")
        /\ active_streams' =
               [active_streams EXCEPT ![tasks[t].session_id].active = FALSE]
        /\ tasks' = [tasks EXCEPT ![t].pc = "l76"]
        /\ UNCHANGED <<conversation_store, uuids, now, calls, last, resolved>>

\* lines 76-78
Outlet76 ==
    \E t \in Ids :
        /\ At(t, "outlet", "l76")
        /\ active_streams' =
               [active_streams EXCEPT ![tasks[t].session_id].end_time = now]
        /\ tasks' = [tasks EXCEPT ![t] = NoTask]
        /\ UNCHANGED <<conversation_store, uuids, now, calls, last, resolved>>

\* lines 84-97: handle_stop is called; an unknown session id is refused, for
\* a known one the dict of the session is taken and the request is sent
StopStart ==
    \E session_id \in HostSessionIds :
        /\ CanStart("loop")
        /\ calls' = calls + 1
        /\ tasks' = IF stop_posts(session_id) = 0
                    THEN tasks
                    ELSE [tasks EXCEPT ![calls + 1] =
                             [NoTask EXCEPT !.op = "stop", !.on = "loop",
                                 !.session_id = session_id, !.attached = TRUE,
                                 !.chat_id = active_streams[session_id].chat_id,
                                 !.pc = "wait"]]
        /\ UNCHANGED <<conversation_store, active_streams, uuids, now, last,
                       resolved>>

\* lines 93-99, 104-111: requests.post returns or raises
StopAnswer ==
    \E t \in Ids, backend \in HostBackend :
        /\ At(t, "stop", "wait")
        /\ tasks' = IF stop_result(tasks[t].session_id, backend).status = "success"
                    THEN [tasks EXCEPT ![t].backend = backend, ![t].pc = "l100"]
                    ELSE [tasks EXCEPT ![t] = NoTask]
        /\ UNCHANGED <<conversation_store, active_streams, uuids, now, calls,
                       last, resolved>>

\* stream_info[key] = value
set_info(stream_info, key, value) ==
    CASE key = "active" -> [stream_info EXCEPT !.active = value]
      [] key = "stopped_by_user" -> [stream_info EXCEPT !.stopped_by_user = value]
      [] key = "stop_time" -> [stream_info EXCEPT !.stop_time = value]

\* a write through the reference stream_info of task t
StopWrite(t, key, value) ==
    IF tasks[t].attached
    THEN active_streams' =
             [active_streams EXCEPT ![tasks[t].session_id] = set_info(@, key, value)]
    ELSE UNCHANGED active_streams

StopWritten(t, key, value, pc) ==
    IF tasks[t].attached
    THEN [tasks EXCEPT ![t].pc = pc]
    ELSE [tasks EXCEPT ![t].pc = pc,
                       ![t].stream_info = set_info(@, key, value)]

\* line 100
Stop100 ==
    \E t \in Ids :
        /\ At(t, "stop", "l100")
        /\ StopWrite(t, "active", FALSE)
        /\ tasks' = StopWritten(t, "active", FALSE, "l101")
        /\ UNCHANGED <<conversation_store, uuids, now, calls, last, resolved>>

\* line 101
Stop101 ==
    \E t \in Ids :
        /\ At(t, "stop", "l101")
        /\ StopWrite(t, "stopped_by_user", "True")
        /\ tasks' = StopWritten(t, "stopped_by_user", "True", "l102")
        /\ UNCHANGED <<conversation_store, uuids, now, calls, last, resolved>>

\* lines 102-103
Stop102 ==
    \E t \in Ids :
        /\ At(t, "stop", "l102")
        /\ StopWrite(t, "stop_time", now)
        /\ tasks' = [tasks EXCEPT ![t] = NoTask]
        /\ UNCHANGED <<conversation_store, uuids, now, calls, last, resolved>>

HostNext ==
    \/ InletStart \/ Inlet47 \/ Inlet48 \/ Inlet52 \/ Inlet61
    \/ OutletStart \/ Outlet75 \/ Outlet76
    \/ StopStart \/ StopAnswer \/ Stop100 \/ Stop101 \/ Stop102

HostSpec == Init /\ [][HostNext]_vars

\* ================================================================ claims
\* the fingerprint of a request, as the data model defines it: the digest of
\* the content of its first user-role message
Fingerprint(body) == sha256(first_user_content(body.messages))
LastInlet == last.op = "inlet"
LastStop == last.op = "stop"
StreamChatIds(streams) == {streams[s].chat_id : s \in Keys(streams)}

\* C1: any two inlet calls whose requests carry no chat_id and have the same
\* first user-role content (no user-role message counting as "") are given
\* the same chat_id, whatever calls were made in between.
C1_SameContentSameChatId ==
    \A p, q \in resolved :
        (p.supplied = "none" /\ q.supplied = "none" /\ p.content = q.content)
            => p.chat_id = q.chat_id

\* C1 witness: after three calls, a request without chat_id whose first
\* user-role message comes second has just been resolved, and an earlier
\* request without chat_id, under another session id, had the same content.
C1_Witness ==
    /\ LastInlet /\ calls = 3
    /\ last.body.chat_id = None
    /\ last.body.messages = <<Msg("assistant", "yo"), Msg("user", "hi")>>
    /\ \E r \in resolved :
           /\ r.supplied = "none" /\ r.content = "hi"
           /\ r.session_id # last.out.session_id
           /\ r.chat_id = last.out.chat_id

\* C2 as stated: any two inlet calls whose requests differ in their first
\* user-role content write different chat_ids into the two bodies.
C2_Original ==
    \A p, q \in resolved : p.content # q.content => p.chat_id # q.chat_id

\* C2 amended: any two inlet calls whose requests differ in their first
\* user-role content, neither carrying a chat_id that is a value of the
\* conversation record other than its own fingerprint's identifier, write
\* different chat_ids into the two bodies.
C2_DifferentContentDifferentChatId ==
    \A p, q \in resolved :
        (p.content # q.content /\ p.supplied # "other" /\ q.supplied # "other")
            => p.chat_id # q.chat_id

\* C2 witness: two such calls with different contents have been made, one
\* of them with a chat_id the record does not know.
C2_Witness ==
    \E p, q \in resolved :
        /\ p.content = "hi" /\ q.content = "yo"
        /\ p.supplied = "unknown" /\ q.supplied = "none"
        /\ p.chat_id # q.chat_id

\* C3: an inlet call whose request supplies a chat_id that is not a value of
\* the conversation record writes into the body the record's identifier of
\* the request's fingerprint if the fingerprint is a key, and otherwise an
\* identifier never seen before, which it stores under the fingerprint; the
\* supplied value is then no chat_id of the body, of the record or of the
\* registry.
C3_UnknownChatIdDiscarded ==
    (LastInlet /\ last.body.chat_id # None
               /\ last.body.chat_id \notin Values(last.store0))
    => LET F == Fingerprint(last.body)
           supplied == last.body.chat_id
       IN  /\ F \in Keys(last.store0) =>
                  /\ last.out.chat_id = last.store0[F]
                  /\ conversation_store = last.store0
           /\ F \notin Keys(last.store0) =>
                  /\ last.out.chat_id[1] = "uuid"
                  /\ last.out.chat_id \notin Values(last.store0)
                  /\ last.out.chat_id \notin StreamChatIds(last.streams0)
                  /\ conversation_store = Put(last.store0, F, last.out.chat_id)
           /\ last.out.chat_id # supplied
           /\ supplied \notin Values(conversation_store)
           /\ supplied \notin StreamChatIds(active_streams)

\* C3 witness: a request with a chat_id made up by the client, for a
\* fingerprint that is already a key, has just been resolved.
C3_Witness ==
    /\ LastInlet
    /\ last.body.chat_id = <<"client", 1>>
    /\ Fingerprint(last.body) \in Keys(last.store0)
    /\ last.out.chat_id = last.store0[Fingerprint(last.body)]

\* C4: an inlet call whose request supplies a non-empty chat_id that is a
\* value of the conversation record writes exactly that chat_id into the body
\* and into the registry entry of the session, whatever the fingerprint.
C4_KnownChatIdTrusted ==
    (LastInlet /\ Truthy(last.body.chat_id)
               /\ last.body.chat_id \in Values(last.store0))
    => /\ last.out.chat_id = last.body.chat_id
       /\ last.out.session_id \in Keys(active_streams)
       /\ active_streams[last.out.session_id].chat_id = last.body.chat_id

\* C4 witness: the supplied chat_id was trusted although the fingerprint of
\* the request maps to another identifier.
C4_Witness ==
    /\ LastInlet
    /\ last.body.chat_id \in Values(last.store0)
    /\ Fingerprint(last.body) \in Keys(last.store0)
    /\ last.store0[Fingerprint(last.body)] # last.body.chat_id
    /\ active_streams[last.out.session_id].chat_id = last.body.chat_id

\* C5: the conversation record is append-only: no step removes a key of the
\* record or changes the identifier a key maps to.
C5_RecordAppendOnly ==
    [][\A k \in Keys(conversation_store) :
           /\ k \in Keys(conversation_store')
           /\ conversation_store'[k] = conversation_store[k]]_vars

\* C5 witness: an inlet call has just resolved a fingerprint that was already
\* a key, the record holding two fingerprints.
C5_Witness ==
    /\ LastInlet
    /\ Cardinality(Keys(last.store0)) = 2
    /\ last.body.chat_id = None
    /\ Fingerprint(last.body) \in Keys(last.store0)
    /\ conversation_store = last.store0

\* C6: in every reachable state the chat_id of every registry entry is a
\* value of the conversation record.
C6_StreamChatIdInRecord ==
    \A s \in Keys(active_streams) :
        active_streams[s].chat_id \in Values(conversation_store)

\* C6 witness: the registry holds an entry that an inlet call registered with
\* a trusted chat_id for a fingerprint that is no key of the record.
C6_Witness ==
    /\ LastInlet
    /\ last.body.chat_id \in Values(last.store0)
    /\ Fingerprint(last.body) \notin Keys(conversation_store)
    /\ active_streams[last.out.session_id].chat_id = last.body.chat_id

\* C7 as stated: all inlet calls for requests with the same fingerprint and
\* the same session id store the same chat_id in the session's entry.
C7_Original ==
    \A p, q \in resolved :
        (p.content = q.content /\ p.session_id = q.session_id)
            => p.chat_id = q.chat_id

\* C7 amended: all inlet calls for requests with the same fingerprint and the
\* same session id that carry no chat_id which is a value of the conversation
\* record other than the fingerprint's identifier store the same chat_id in
\* the session's entry.
C7_SameFingerprintSameSession ==
    \A p, q \in resolved :
        (p.content = q.content /\ p.session_id = q.session_id
         /\ p.supplied # "other" /\ q.supplied # "other")
            => p.chat_id = q.chat_id

\* C7 witness: fingerprint and session id of the call that just ran were
\* resolved before, once without chat_id and now with one the record does
\* not know, and the entry holds the chat_id stored first.
C7_Witness ==
    /\ LastInlet
    /\ last.body.chat_id = <<"client", 1>>
    /\ \E r \in resolved :
           /\ r.supplied = "none"
           /\ r.content = first_user_content(last.body.messages)
           /\ r.session_id = last.out.session_id
           /\ active_streams[r.session_id].chat_id = r.chat_id

\* C8: handle_stop returns success, "Stream stopped", exactly when the
\* backend answered its request with status 200; the entry of the session
\* is then inactive, stopped by the user and stamped with the time of the
\* call, and its chat_id is the one it had.
StopSucceeded ==
    last.result = [status |-> "success", message |-> "Stream stopped", detail |-> ""]

C8_StopSuccess ==
    LastStop =>
        /\ StopSucceeded <=> (last.posts = 1 /\ last.backend = "200")
        /\ StopSucceeded =>
               LET info == active_streams[last.session_id]
               IN  /\ info.active = FALSE
                   /\ info.stopped_by_user = "True"
                   /\ info.stop_time = last.time
                   /\ info.chat_id = last.streams0[last.session_id].chat_id

\* C8 witness: a stop of a session that was active has succeeded.
C8_Witness ==
    /\ LastStop /\ StopSucceeded
    /\ last.streams0[last.session_id].active = TRUE
    /\ active_streams[last.session_id].active = FALSE

\* C9: when the backend answers with another status than 200, or the request
\* fails in transport, handle_stop returns an error that names the status or
\* the transport error, and both stores are as they were before the call.
C9_StopFailure ==
    (LastStop /\ last.posts = 1 /\ last.backend # "200")
    => /\ last.result.status = "error"
       /\ last.backend \in StatusCodes =>
              /\ last.result.message = "Backend returned "
              /\ last.result.detail = last.backend
       /\ last.backend \in RequestExceptions =>
              /\ last.result.message = "Failed to reach backend: "
              /\ last.result.detail = last.backend
       /\ active_streams = last.streams0
       /\ conversation_store = last.store0

\* C9 witness: the backend answered 500 to the stop of an active session.
C9_Witness ==
    /\ LastStop /\ last.backend = "500"
    /\ last.result.status = "error"
    /\ active_streams[last.session_id].active = TRUE

\* C10: handle_stop for a session id that is no key of the registry returns
\* the error "Session not found", sends nothing to the backend and leaves
\* both stores as they were, without an entry for that session id.
C10_StopUnknownSession ==
    (LastStop /\ last.session_id \notin Keys(last.streams0))
    => /\ last.result =
              [status |-> "error", message |-> "Session not found", detail |-> ""]
       /\ last.posts = 0
       /\ last.backend = "none"
       /\ active_streams = last.streams0
       /\ conversation_store = last.store0
       /\ last.session_id \notin Keys(active_streams)

\* C10 witness: a stop for an unknown session id was refused while the
\* registry held another session.
C10_Witness ==
    /\ LastStop
    /\ last.result.message = "Session not found"
    /\ Keys(active_streams) # {}
    /\ last.session_id \notin Keys(active_streams)

\* C11: an outlet call for a response whose session_id is a key of the
\* registry and that carries done = true or a non-empty stop_reason sets the
\* entry of the session inactive and stamps it with the time of the call; for
\* any other response the registry stays as it was; in both cases all other
\* entries and the conversation record stay as they were and the response is
\* returned as it came.
LastOutlet == last.op = "outlet"

C11_FinalizeFrame ==
    LastOutlet =>
        LET r == last.response
            known == r.session_id # None /\ r.session_id \in Keys(last.streams0)
            signal == r.done = "True" \/ r.stop_reason \notin {None, EmptyStr}
        IN  /\ (known /\ signal) =>
                   active_streams =
                       [last.streams0 EXCEPT ![r.session_id].active = FALSE,
                                             ![r.session_id].end_time = last.time]
            /\ ~(known /\ signal) => active_streams = last.streams0
            /\ conversation_store = last.store0
            /\ last.returned = last.response

\* C11 witness: a response with a stop_reason and done = false has ended one
\* of two registered sessions.
C11_Witness ==
    /\ LastOutlet
    /\ last.response.done = "False" /\ last.response.stop_reason = <<"stop", 0>>
    /\ Cardinality(Keys(last.streams0)) = 2
    /\ last.response.session_id \in Keys(last.streams0)
    /\ last.streams0[last.response.session_id].active = TRUE
    /\ active_streams[last.response.session_id].active = FALSE

\* C14: every handle_stop call returns one outcome with status success or
\* error: "Session not found" for an unknown session id, without contacting
\* the backend; otherwise, after one request to the backend, success for the
\* answer 200, the error "Backend returned <status>" for another answer and
\* the error "Failed to reach backend: <cause>" for a transport failure or a
\* timeout.
C14_StopOutcome ==
    LastStop =>
        LET known == last.session_id \in Keys(last.streams0)
            r == last.result
        IN  /\ r.status \in {"success", "error"}
            /\ last.posts \in {0, 1}
            /\ ~known =>
                   /\ last.posts = 0
                   /\ r.status = "error" /\ r.message = "Session not found"
            /\ known => last.posts = 1 /\ last.backend \in Backend
            /\ (known /\ last.backend = "200") =>
                   r.status = "success" /\ r.message = "Stream stopped"
            /\ (known /\ last.backend \in StatusCodes \ {"200"}) =>
                   r.status = "error" /\ r.message = "Backend returned "
            /\ (known /\ last.backend \in RequestExceptions) =>
                   r.status = "error" /\ r.message = "Failed to reach backend: "

\* C14 witness: the request to the backend has timed out and the call has
\* returned an error.
C14_Witness ==
    /\ LastStop /\ last.backend = "Timeout" /\ last.posts = 1
    /\ last.result.status = "error"

\* C15: after an inlet call whose session id had an entry in the registry,
\* the entry holds exactly the chat_id this call chose, the time of the call
\* as start time and active = true: no end time, stopped_by_user flag or stop
\* time of the earlier entry is left.
C15_ResolveReplacesEntry ==
    (LastInlet /\ last.out.session_id \in Keys(last.streams0))
    => active_streams[last.out.session_id] =
           [chat_id |-> last.out.chat_id, start_time |-> last.time,
            active |-> TRUE, end_time |-> NoTime,
            stopped_by_user |-> NoFlag, stop_time |-> NoTime]

\* C15 witness: the session had been stopped by the user before the call.
C15_Witness ==
    /\ LastInlet
    /\ last.out.session_id \in Keys(last.streams0)
    /\ last.streams0[last.out.session_id].stopped_by_user = "True"
    /\ last.streams0[last.out.session_id].stop_time # NoTime
    /\ active_streams[last.out.session_id].stopped_by_user = NoFlag

\* C16: no step removes a key from the conversation record or from the
\* registry, and every step that adds a key to either is an inlet call.
C16_StoresNeverLoseKeys ==
    [][/\ Keys(conversation_store) \subseteq Keys(conversation_store')
       /\ Keys(active_streams) \subseteq Keys(active_streams')
       /\ (\/ Keys(conversation_store') # Keys(conversation_store)
           \/ Keys(active_streams') # Keys(active_streams)) => Inlet]_vars

\* C16 witness: a stop has succeeded on one of two registered sessions and
\* both stores have the keys they had.
C16_Witness ==
    /\ LastStop /\ StopSucceeded
    /\ Cardinality(Keys(last.streams0)) = 2
    /\ Keys(active_streams) = Keys(last.streams0)
    /\ Keys(conversation_store) = Keys(last.store0)

\* C17: an inlet call returns the messages and every other field of the
\* request as they came, except chat_id and session_id; a non-empty
\* session_id of the request is returned as it came and is the key the call
\* registers.
C17_SessionIdKept ==
    LastInlet =>
        /\ last.out.messages = last.body.messages
        /\ last.out.model = last.body.model
        /\ Truthy(last.body.session_id) =>
               /\ last.out.session_id = last.body.session_id
               /\ Keys(active_streams) =
                      Keys(last.streams0) \cup {last.body.session_id}
               /\ active_streams[last.body.session_id].start_time = last.time

\* C17 witness: a request with two messages and the session id S1 was given
\* a new chat_id and registered under S1.
C17_Witness ==
    /\ LastInlet
    /\ last.body.session_id = <<"S", 1>>
    /\ Len(last.body.messages) = 2
    /\ last.out.chat_id # last.body.chat_id
    /\ last.out.session_id = <<"S", 1>>
    /\ <<"S", 1>> \notin Keys(last.streams0)

\* C18: inlet calls for requests without session_id are given the same
\* session id exactly when they are made in the same clock second; a call in
\* a second in which an earlier such call was given another chat_id finds
\* that call's entry under its session id and leaves its own chat_id there.
C18_GeneratedSessionId ==
    /\ \A p, q \in resolved :
           (p.second # NoTime /\ q.second # NoTime)
               => (p.second = q.second <=> p.session_id = q.session_id)
    /\ (LastInlet /\ ~Truthy(last.body.session_id)) =>
           /\ last.out.session_id[1] = "session-"
           /\ last.out.session_id[2] = last.time \div TicksPerSecond
           /\ active_streams[last.out.session_id].chat_id = last.out.chat_id
           /\ \A r \in resolved :
                  (r.second = last.time \div TicksPerSecond
                   /\ r.chat_id # last.out.chat_id)
                      => last.out.session_id \in Keys(last.streams0)

\* C18 witness: two requests of different conversations, without session_id,
\* were resolved at different times of second 0; the entry of the first was
\* overwritten by the second.
C18_Witness ==
    /\ LastInlet /\ last.body.session_id = None /\ last.time = 1
    /\ last.out.session_id \in Keys(last.streams0)
    /\ last.streams0[last.out.session_id].start_time = 0
    /\ last.streams0[last.out.session_id].chat_id # last.out.chat_id
    /\ active_streams[last.out.session_id].chat_id = last.out.chat_id
    /\ \E r \in resolved : r.second = 0 /\ r.chat_id # last.out.chat_id

\* C20: an inlet call whose request supplies a non-empty chat_id that is a
\* value of the conversation record leaves the record as it was: no key is
\* added for the fingerprint of the request and no key is mapped to another
\* identifier.
C20_TrustedPathKeepsRecord ==
    (LastInlet /\ Truthy(last.body.chat_id)
               /\ last.body.chat_id \in Values(last.store0))
    => conversation_store = last.store0

\* C20 witness: the chat_id was trusted for a request whose fingerprint is
\* no key of the record, which holds two other fingerprints.
C20_Witness ==
    /\ LastInlet
    /\ last.body.chat_id \in Values(last.store0)
    /\ Cardinality(Keys(last.store0)) = 2
    /\ Fingerprint(last.body) \notin Keys(last.store0)
    /\ last.out.chat_id = last.body.chat_id
    /\ conversation_store = last.store0

\* C12 as stated: while a handle_stop call waits for the answer of the
\* backend, the host can have an inlet call and an outlet call for any other
\* session processed, on whichever runner it uses for them.
StopWaiting(t) == At(t, "stop", "wait")

C12_StopDoesNotBlock ==
    \A t \in Ids :
        (StopWaiting(t) /\ calls < MaxCalls) =>
            \A on \in Runners :
                /\ \A body \in HostBodies :
                       inlet_session_id(body) # tasks[t].session_id
                           => ENABLED InletCall(body, on)
                /\ \A body \in HostResponses :
                       body.session_id # tasks[t].session_id
                           => ENABLED OutletCall(body, on)

\* C13: two inlet calls for requests with the same fingerprint and without
\* chat_id that both found the fingerprint absent from the record both store
\* an identifier of their own, and the chat_ids the two write into their
\* bodies differ.
Raced(t, u) ==
    /\ t # u
    /\ At(t, "inlet", "l61") /\ At(u, "inlet", "l61")
    /\ tasks[t].body.chat_id = None /\ tasks[u].body.chat_id = None
    /\ Fingerprint(tasks[t].body) = Fingerprint(tasks[u].body)
    /\ tasks[t].fresh /\ tasks[u].fresh

C13_FirstInsertRace ==
    \A t, u \in Ids :
        Raced(t, u) =>
            /\ tasks[t].chat_id # tasks[u].chat_id
            /\ tasks[t].chat_id[1] = "uuid" /\ tasks[u].chat_id[1] = "uuid"
            /\ Fingerprint(tasks[t].body) \in Keys(conversation_store)

\* C13 witness: the first two calls of a run have raced; both have stored
\* their identifier and the record holds the one of the second call.
C13_Witness ==
    /\ Raced(1, 2)
    /\ tasks[1].chat_id = Uuid(1) /\ tasks[2].chat_id = Uuid(2)
    /\ conversation_store[Fingerprint(tasks[1].body)] = Uuid(2)

\* C19 as stated: in the step in which a handle_stop call returns success,
\* the entry the registry holds for its session id is inactive and stopped
\* by the user.
C19_StopLandsOnCurrentEntry ==
    [][\A t \in Ids :
           (At(t, "stop", "l102") /\ tasks'[t] = NoTask)
           => /\ active_streams'[tasks[t].session_id].active = FALSE
              /\ active_streams'[tasks[t].session_id].stopped_by_user = "True"]_vars
====
